---- MODULE Spec2Model ----
(***************************************************************************)
(* Model of the chat service: the in-memory session store and the chat    *)
(* turn of LLMClient (apps/api/services/llm_client.py), the PIIMasker     *)
(* singleton and its mask pipeline (apps/api/utils/pii_masker.py and      *)
(* labs/templates/lab4/pii_masker.py).                                    *)
(*                                                                         *)
(* Text is a sequence of one-character strings.  Confidence scores are    *)
(* percentages (0.9 is 90).                                                *)
(***************************************************************************)
EXTENDS Integers, Sequences, FiniteSets, TLC

\* ------------------------------------------------------------------------
\* Bounds of the model
\* ------------------------------------------------------------------------

\* number of chat calls a behaviour may start
MaxTurns == 2

\* number of entities one detection pass may report
MaxEntities == 1

\* number of get_instance calls a thread may make
MaxCalls == 2

\* ------------------------------------------------------------------------
\* Values
\* ------------------------------------------------------------------------

Tasks == {"t1", "t2"}

SessionIds == {"s1", "s2"}

Threads == {"th1", "th2", "th3"}

\* what callers send as user_message in the chat model
UserTexts == {<<"h", "i">>, <<"i", "n", "U", "S">>}

\* what the backend answers
Replies == {<<"o", "k">>}

\* texts handed to mask in the mask model
MaskTexts == {<<>>, <<"U", "S">>, <<"u", "k">>, <<"i", "n", "U", "S">>, <<"a", "@", "b">>}

EntityTypes == {"LOCATION", "EMAIL_ADDRESS", "URL"}

Scores == {89, 90}

None == "None"

Min(a, b) == IF a < b THEN a ELSE b

Max(a, b) == IF a < b THEN b ELSE a

\* ------------------------------------------------------------------------
\* PIIMasker: policy, detection results, mask
\* ------------------------------------------------------------------------

OperatorConfig(op, new_value, chars_to_mask) ==
    [op |-> op, new_value |-> new_value, chars_to_mask |-> chars_to_mask]

\* the value of dict.get("DEFAULT") when the policy has no DEFAULT entry
NoOperator == OperatorConfig(None, "", 0)

\* default policy of apps/api/utils/pii_masker.py
ApiAnonymizers ==
    [k \in {"DEFAULT", "PHONE_NUMBER", "CREDIT_CARD", "EMAIL_ADDRESS", "PERSON",
            "IP_ADDRESS", "IBAN_CODE", "US_SSN"} |->
        CASE k = "DEFAULT" -> OperatorConfig("replace", "{{PII}}", 0)
          [] k = "PHONE_NUMBER" -> OperatorConfig("replace", "{{PHONE}}", 0)
          [] k = "CREDIT_CARD" -> OperatorConfig("mask", "*", -4)
          [] k = "EMAIL_ADDRESS" -> OperatorConfig("replace", "{{EMAIL}}", 0)
          [] k = "PERSON" -> OperatorConfig("replace", "{{NAME}}", 0)
          [] k = "IP_ADDRESS" -> OperatorConfig("replace", "{{IP}}", 0)
          [] k = "IBAN_CODE" -> OperatorConfig("replace", "{{IBAN}}", 0)
          [] k = "US_SSN" -> OperatorConfig("mask", "*", -2)]

\* default policy of labs/templates/lab4/pii_masker.py
Lab4Anonymizers ==
    [k \in {"DEFAULT", "PHONE_NUMBER", "CREDIT_CARD", "EMAIL_ADDRESS", "PERSON",
            "IP_ADDRESS", "IBAN_CODE", "US_SSN", "US_ITIN", "US_PASSPORT",
            "US_DRIVER_LICENSE", "LOCATION"} |->
        CASE k = "DEFAULT" -> OperatorConfig("replace", "{{PII}}", 0)
          [] k = "PHONE_NUMBER" -> OperatorConfig("replace", "{{PHONE}}", 0)
          [] k = "CREDIT_CARD" -> OperatorConfig("mask", "*", 4)
          [] k = "EMAIL_ADDRESS" -> OperatorConfig("replace", "{{EMAIL}}", 0)
          [] k = "PERSON" -> OperatorConfig("replace", "{{NAME}}", 0)
          [] k = "IP_ADDRESS" -> OperatorConfig("replace", "{{IP}}", 0)
          [] k = "IBAN_CODE" -> OperatorConfig("replace", "{{IBAN}}", 0)
          [] k = "US_SSN" -> OperatorConfig("mask", "*", 4)
          [] k = "US_ITIN" -> OperatorConfig("mask", "*", 4)
          [] k = "US_PASSPORT" -> OperatorConfig("mask", "*", 3)
          [] k = "US_DRIVER_LICENSE" -> OperatorConfig("mask", "*", 4)
          [] k = "LOCATION" -> OperatorConfig("keep", "", 0)]

\* a caller-supplied policy that has no DEFAULT entry
CustomAnonymizers ==
    [k \in {"EMAIL_ADDRESS"} |-> OperatorConfig("replace", "{{MAIL}}", 0)]

Variants == {"api", "lab4"}

\* the anonymizers argument of the constructor: not given (None) or a dict
AnonymizerArgs ==
    {[given |-> FALSE, dict |-> <<>>], [given |-> TRUE, dict |-> CustomAnonymizers]}

\* PIIMasker.__init__: the policy the instance ends up with
PIIMasker_init(variant, anonymizers) ==
    IF ~anonymizers.given
    THEN (IF variant = "api" THEN ApiAnonymizers ELSE Lab4Anonymizers)
    ELSE anonymizers.dict

\* str.upper on the characters the model uses
Upper(text) ==
    [i \in 1..Len(text) |->
        CASE text[i] = "u" -> "U"
          [] text[i] = "s" -> "S"
          [] text[i] = "k" -> "K"
          [] text[i] = "i" -> "I"
          [] text[i] = "n" -> "N"
          [] text[i] = "h" -> "H"
          [] text[i] = "a" -> "A"
          [] text[i] = "b" -> "B"
          [] OTHER -> text[i]]

common_abbreviations ==
    {<<"U", "S">>, <<"U", "K">>, <<"C", "A">>, <<"N", "Y">>, <<"T", "X">>,
     <<"F", "L">>, <<"I", "L">>, <<"P", "A">>, <<"O", "H">>, <<"M", "I">>}

HighConfidence == 90

\* text[start:end] of Python for 0 <= start <= end <= len(text)
Slice(text, start, end) == SubSeq(text, start + 1, end)

RecognizerResult(entity_type, start, end, score) ==
    [entity_type |-> entity_type, start |-> start, end |-> end, score |-> score]

\* the entities the detection engine may report on a text
Entities(text) ==
    {RecognizerResult(ty, st, en, sc) :
        ty \in EntityTypes, st \in 0..Len(text), en \in 0..Len(text), sc \in Scores}

ValidEntities(text) == {r \in Entities(text) : r.start < r.end}

RECURSIVE SeqsUpTo(_, _)
\* the sequences over S of length at most n
SeqsUpTo(S, n) ==
    IF n = 0 THEN {<<>>}
    ELSE LET shorter == SeqsUpTo(S, n - 1)
         IN  shorter \cup {Append(q, x) : q \in {w \in shorter : Len(w) = n - 1}, x \in S}

\* analyzer.analyze: raises, or returns a list of results
AnalyzeOutcomes(text) ==
    {[raises |-> TRUE, results |-> <<>>]} \cup
    {[raises |-> FALSE, results |-> rs] : rs \in SeqsUpTo(ValidEntities(text), MaxEntities)}

\* anonymizer.anonymize: raises, or returns an object whose text is the rewrite
AnonymizeOutcomes(text) ==
    {[raises |-> TRUE, text |-> <<>>]} \cup
    {[raises |-> FALSE, text |-> o] :
        o \in {text, <<"{{PII}}">>, SubSeq(text, 1, Len(text) - 1) \o <<"*">>}}

\* lab4 mask, lines 74-87: drop low-confidence LOCATION abbreviations
FilterResults(text, results) ==
    LET Keep(r) ==
            ~(/\ r.entity_type = "LOCATION"
              /\ Upper(Slice(text, r.start, r.end)) \in common_abbreviations
              /\ r.score < HighConfidence)
    IN  SelectSeq(results, Keep)

\* per-entity operator map with the DEFAULT fallback
BuildOperators(anonymizers, results) ==
    [ent \in {results[i].entity_type : i \in 1..Len(results)} |->
        IF ent \in DOMAIN anonymizers THEN anonymizers[ent]
        ELSE IF "DEFAULT" \in DOMAIN anonymizers THEN anonymizers["DEFAULT"]
        ELSE NoOperator]

\* what a call of mask did: whether it raised, what it returned, and what
\* it handed to the rewrite engine (called = FALSE when it never got there)
MaskResult(raised, value, called, analyzer_results, operators) ==
    [raised |-> raised, value |-> value, called |-> called,
     analyzer_results |-> analyzer_results, operators |-> operators]

\* the tail of mask letting the rewrite engine's exception out
AnonymizeUnguarded(anonymizers, text, results, rewrite) ==
    LET operators == BuildOperators(anonymizers, results)
    IN  IF rewrite.raises
        THEN MaskResult(TRUE, <<>>, TRUE, results, operators)
        ELSE MaskResult(FALSE, rewrite.text, TRUE, results, operators)

\* the tail of mask returning its input where it should return out.text
AnonymizeReturnsInput(anonymizers, text, results, rewrite) ==
    MaskResult(FALSE, text, TRUE, results, BuildOperators(anonymizers, results))

\* the tail of mask: build the operators and call the rewrite engine
Anonymize(anonymizers, text, results, rewrite) ==
    LET operators == BuildOperators(anonymizers, results)
    IN  IF rewrite.raises
        THEN MaskResult(FALSE, text, TRUE, results, operators)
        ELSE MaskResult(FALSE, rewrite.text, TRUE, results, operators)

\* mask letting the detection engine's exception out
mask_detection_unguarded(variant, anonymizers, text, analysis, rewrite) ==
    IF text = <<>> THEN MaskResult(FALSE, text, FALSE, <<>>, <<>>)
    ELSE IF analysis.raises THEN MaskResult(TRUE, <<>>, FALSE, <<>>, <<>>)
    ELSE IF analysis.results = <<>> THEN MaskResult(FALSE, text, FALSE, <<>>, <<>>)
    ELSE IF variant = "api"
         THEN Anonymize(anonymizers, text, analysis.results, rewrite)
         ELSE LET filtered_results == FilterResults(text, analysis.results)
              IN  IF filtered_results = <<>>
                  THEN MaskResult(FALSE, text, FALSE, <<>>, <<>>)
                  ELSE Anonymize(anonymizers, text, filtered_results, rewrite)

\* PIIMasker.mask of either file; analysis and rewrite are the outcomes of
\* the two engine calls
mask(variant, anonymizers, text, analysis, rewrite) ==
    IF text = <<>> THEN MaskResult(FALSE, text, FALSE, <<>>, <<>>)
    ELSE IF analysis.raises THEN MaskResult(FALSE, text, FALSE, <<>>, <<>>)
    ELSE IF analysis.results = <<>> THEN MaskResult(FALSE, text, FALSE, <<>>, <<>>)
    ELSE IF variant = "api"
         THEN Anonymize(anonymizers, text, analysis.results, rewrite)
         ELSE LET filtered_results == FilterResults(text, analysis.results)
              IN  IF filtered_results = <<>>
                  THEN MaskResult(FALSE, text, FALSE, <<>>, <<>>)
                  ELSE Anonymize(anonymizers, text, filtered_results, rewrite)

\* ------------------------------------------------------------------------
\* LLMClient: session store and message chain
\* ------------------------------------------------------------------------

\* a capacity that is odd
HistoryLimitOdd == 20 - 1

\* the capacity of one session's history
HistoryLimit == 20

system_prompt == <<"S", "Y", "S">>

Message(role, content) == [role |-> role, content |-> content]

\* LLMClient._get_session_history: SESSION_STORE.get(session_id, [])
get_session_history(store, sid) ==
    IF sid \in DOMAIN store THEN store[sid] ELSE <<>>

\* seq[-n:] of Python
LastN(seq, n) ==
    IF Len(seq) <= n THEN seq ELSE SubSeq(seq, Len(seq) - n + 1, Len(seq))

\* _save_to_session with the trim keeping the head of the list ([:20])
save_to_session_keeps_oldest(store, sid, role, content) ==
    LET created == IF sid \in DOMAIN store THEN store ELSE store @@ (sid :> <<>>)
        appended_to == [created EXCEPT ![sid] = Append(@, Message(role, content))]
    IN  IF Len(appended_to[sid]) > HistoryLimit
        THEN [appended_to EXCEPT ![sid] = SubSeq(@, 1, HistoryLimit)]
        ELSE appended_to

\* _save_to_session with one capacity for the whole store: going over
\* the limit drops the oldest message of every session
save_to_session_trims_every_session(store, sid, role, content) ==
    LET created == IF sid \in DOMAIN store THEN store ELSE store @@ (sid :> <<>>)
        appended_to == [created EXCEPT ![sid] = Append(@, Message(role, content))]
    IN  IF Len(appended_to[sid]) > HistoryLimit
        THEN [s \in DOMAIN appended_to |->
                IF appended_to[s] = <<>> THEN <<>> ELSE Tail(appended_to[s])]
        ELSE appended_to

\* LLMClient._save_to_session: the store after the call
save_to_session(store, sid, role, content) ==
    LET created == IF sid \in DOMAIN store THEN store ELSE store @@ (sid :> <<>>)
        appended_to == [created EXCEPT ![sid] = Append(@, Message(role, content))]
    IN  IF Len(appended_to[sid]) > HistoryLimit
        THEN [appended_to EXCEPT ![sid] = LastN(@, HistoryLimit)]
        ELSE appended_to

SystemMessage(content) == [type |-> "system", content |-> content]

HumanMessage(content) == [type |-> "human", content |-> content]

AIMessage(content) == [type |-> "ai", content |-> content]

RECURSIVE HistoryMessages(_)
\* the loop of _build_message_chain: user and assistant entries are
\* converted, an entry of any other role is skipped
HistoryMessages(history) ==
    IF history = <<>> THEN <<>>
    ELSE LET msg == Head(history)
             rest == HistoryMessages(Tail(history))
         IN  IF msg.role = "user" THEN <<HumanMessage(msg.content)>> \o rest
             ELSE IF msg.role = "assistant" THEN <<AIMessage(msg.content)>> \o rest
             ELSE rest

\* _build_message_chain with the new message put before the history
build_message_chain_new_first(store, sid, new_message) ==
    <<SystemMessage(system_prompt)>>
        \o <<HumanMessage(new_message)>>
        \o HistoryMessages(get_session_history(store, sid))

\* LLMClient._build_message_chain
build_message_chain(store, sid, new_message) ==
    <<SystemMessage(system_prompt)>>
        \o HistoryMessages(get_session_history(store, sid))
        \o <<HumanMessage(new_message)>>

\* LLMClient.get_session_count
get_session_count(store) == Cardinality(DOMAIN store)

\* clear_session emptying the whole dictionary
clear_session_clears_all(store, sid) ==
    [store |-> IF sid \in DOMAIN store THEN [s \in {} |-> <<>>] ELSE store,
     result |-> sid \in DOMAIN store]

\* LLMClient.clear_session: the store after the call and the value returned
clear_session(store, sid) ==
    [store |-> IF sid \in DOMAIN store
               THEN [s \in DOMAIN store \ {sid} |-> store[s]]
               ELSE store,
     result |-> sid \in DOMAIN store]

\* ------------------------------------------------------------------------
\* State
\* ------------------------------------------------------------------------

VARIABLES
    \* llm_client.py: the module-level session dictionary
    SESSION_STORE,
    \* per task handling one turn: where it is, and the locals of chat
    pc, session_id, raw_message, user_message, messages, reply,
    \* the redaction-enabled flag of the deployment
    redaction_enabled,
    \* settings.llm_provider, and per task the exception the backend call
    \* raised, the hint chat logged for it, and the HTTP response of the
    \* endpoint
    llm_provider, error, hint, response,
    \* history of the run, kept for stating properties: the number of turns
    \* started, the number of each task's turn, what the redaction of each
    \* task's turn did, every message appended to a session since it was
    \* created, the store as it was when each task's turn began, and whether
    \* the store has been left alone by everybody else since then
    turns, turn, redaction, appended, before, quiet,
    \* pii_masker.py: PIIMasker._instance, the holder of PIIMasker._lock,
    \* the objects under construction or constructed, and per thread its
    \* position in get_instance, the object it is constructing, what it was
    \* handed, and the calls it has made
    instance, lock, objects, ipc, building, got, calls,
    \* one call of mask: its inputs and what it did
    mvariant, manonymizers, mtext, manalysis, mrewrite, mresult, mdone,
    \* cli/main.py, one call of extract_reply: the status code and payload
    \* text it is given, and what it did
    cli_status, cli_text, cli_result, cli_done

chatVars ==
    <<SESSION_STORE, pc, session_id, raw_message, user_message, messages, reply,
      redaction_enabled, llm_provider, error, hint, response,
      turns, turn, redaction, appended, before, quiet>>

httpVars == <<llm_provider, error, hint, response>>

instVars == <<instance, lock, objects, ipc, building, got, calls>>

maskVars == <<mvariant, manonymizers, mtext, manalysis, mrewrite, mresult, mdone>>

cliVars == <<cli_status, cli_text, cli_result, cli_done>>

vars == <<chatVars, instVars, maskVars, cliVars>>

EmptyStore == [s \in {} |-> <<>>]

NoResult == MaskResult(FALSE, <<>>, FALSE, <<>>, <<>>)

NoRewrite == [raises |-> FALSE, text |-> <<>>]

\* what the redaction of a turn did: whether the rewrite engine was called
\* and, if so, what the engine did
NoRedaction == [called |-> FALSE, rewrite |-> NoRewrite]

Digits == <<"0", "1", "2", "3", "4", "5", "6", "7", "8", "9">>

\* a history of n messages left by n/2 earlier turns: message i has the
\* two-digit text of i
Prefill(n) ==
    [i \in 1..n |->
        Message(IF i % 2 = 1 THEN "user" ELSE "assistant",
                <<Digits[(i \div 10) + 1], Digits[(i % 10) + 1]>>)]

Tagged(msg, n) == [role |-> msg.role, content |-> msg.content, turn |-> n]

PrefillLog(n) == [i \in 1..n |-> Tagged(Prefill(n)[i], 0 - ((i + 1) \div 2))]

\* lengths of the history session s1 starts with
PrefillLens == {0, 18}

NoError == ""

\* the response of the endpoint: a ChatResponse is status 200 with the
\* session identifier and the reply, an HTTPException is its status and detail
HttpResponse(status, detail, sid, text) ==
    [status |-> status, detail |-> detail, session_id |-> sid, reply |-> text]

NoResponse == HttpResponse(0, <<>>, "", <<>>)

ChatIdle ==
    /\ error = [t \in Tasks |-> NoError]
    /\ hint = [t \in Tasks |-> ""]
    /\ response = [t \in Tasks |-> NoResponse]
    /\ pc = [t \in Tasks |-> "idle"]
    /\ session_id = [t \in Tasks |-> ""]
    /\ raw_message = [t \in Tasks |-> <<>>]
    /\ user_message = [t \in Tasks |-> <<>>]
    /\ messages = [t \in Tasks |-> <<>>]
    /\ reply = [t \in Tasks |-> <<>>]
    /\ turns = 0
    /\ turn = [t \in Tasks |-> 0]
    /\ redaction = [t \in Tasks |-> NoRedaction]
    /\ before = [t \in Tasks |-> EmptyStore]
    /\ quiet = [t \in Tasks |-> TRUE]

\* objects are numbered from 1; 0 stands for Python's None
NoObject == 0

InstIdle ==
    /\ instance = NoObject
    /\ lock = None
    /\ objects = <<>>
    /\ ipc = [th \in Threads |-> "idle"]
    /\ building = [th \in Threads |-> NoObject]
    /\ got = [th \in Threads |-> NoObject]
    /\ calls = [th \in Threads |-> 0]

MaskIdle ==
    /\ mvariant = "api"
    /\ manonymizers = ApiAnonymizers
    /\ mtext = <<>>
    /\ manalysis = [raises |-> FALSE, results |-> <<>>]
    /\ mrewrite = NoRewrite
    /\ mresult = NoResult
    /\ mdone = FALSE

NoExtract == [raised |-> "", ok |-> FALSE, message |-> ""]

CliIdle ==
    /\ cli_status = 0
    /\ cli_text = ""
    /\ cli_result = NoExtract
    /\ cli_done = FALSE

\* the store holds nothing, or session s1 with the history of earlier turns
StartStore(n) ==
    /\ SESSION_STORE = (IF n = 0 THEN EmptyStore ELSE ("s1" :> Prefill(n)))
    /\ appended = [s \in SessionIds |-> IF s = "s1" THEN PrefillLog(n) ELSE <<>>]

\* the service as deployed by apps/api: no redaction step
Init ==
    /\ \E n \in PrefillLens : StartStore(n)
    /\ redaction_enabled = FALSE
    /\ llm_provider = "ollama"
    /\ ChatIdle
    /\ InstIdle
    /\ MaskIdle
    /\ CliIdle

\* the service with the redaction step switched on
InitRedact ==
    /\ StartStore(0)
    /\ redaction_enabled = TRUE
    /\ llm_provider = "ollama"
    /\ ChatIdle
    /\ InstIdle
    /\ MaskIdle
    /\ CliIdle

\* ------------------------------------------------------------------------
\* One turn
\* ------------------------------------------------------------------------

\* the detections tried on a turn's message: the engine fails, finds a
\* doubtful location in the last two characters, or finds an address in the
\* whole text
TurnAnalyses(text) ==
    {[raises |-> TRUE, results |-> <<>>],
     [raises |-> FALSE,
      results |-> <<RecognizerResult("LOCATION", Len(text) - 2, Len(text), 89)>>],
     [raises |-> FALSE,
      results |-> <<RecognizerResult("EMAIL_ADDRESS", 0, Len(text), 90)>>]}

\* the rewrites tried on a turn's message: the engine fails, or puts a
\* placeholder for the text
TurnRewrites(text) ==
    {[raises |-> TRUE, text |-> <<>>], [raises |-> FALSE, text |-> <<"{{PII}}">>]}

\* step 1 of a turn: the message is put through the mask of the shared
\* PIIMasker when redaction is enabled
Redact(enabled, text, analysis, rewrite) ==
    IF enabled
    THEN mask("lab4", PIIMasker_init("lab4", [given |-> FALSE, dict |-> <<>>]),
              text, analysis, rewrite)
    ELSE MaskResult(FALSE, text, FALSE, <<>>, <<>>)

\* chat recording the user message before it calls the backend
ChatCallSavesFirst(t, sid, um) ==
    /\ pc[t] = "received"
    /\ user_message' = [user_message EXCEPT ![t] = um]
    /\ messages' = [messages EXCEPT ![t] = build_message_chain(SESSION_STORE, sid, um)]
    /\ reply' = [reply EXCEPT ![t] = <<>>]
    /\ before' = [before EXCEPT ![t] = SESSION_STORE]
    /\ quiet' = [quiet EXCEPT ![t] = TRUE]
    /\ pc' = [pc EXCEPT ![t] = "awaiting"]
    /\ SESSION_STORE' = save_to_session(SESSION_STORE, sid, "user", um)
    /\ appended' = [appended EXCEPT ![sid] =
                        Append(@, Tagged(Message("user", um), turn[t]))]
    /\ UNCHANGED <<session_id, redaction_enabled, turns, turn>>

\* chat reading the history with setdefault: an unseen session is created
ChatCallCreatesSession(t, sid, um) ==
    /\ pc[t] = "received"
    /\ user_message' = [user_message EXCEPT ![t] = um]
    /\ messages' = [messages EXCEPT ![t] = build_message_chain(SESSION_STORE, sid, um)]
    /\ reply' = [reply EXCEPT ![t] = <<>>]
    /\ before' = [before EXCEPT ![t] = SESSION_STORE]
    /\ quiet' = [quiet EXCEPT ![t] = TRUE]
    /\ pc' = [pc EXCEPT ![t] = "awaiting"]
    /\ SESSION_STORE' = (IF sid \in DOMAIN SESSION_STORE THEN SESSION_STORE
                         ELSE SESSION_STORE @@ (sid :> <<>>))
    /\ UNCHANGED <<appended, session_id, redaction_enabled, turns, turn>>

\* chat holding one lock for all sessions from its entry to its return
ChatCallUnderGlobalLock(t, sid, um) ==
    /\ pc[t] = "received"
    /\ \A u \in Tasks : pc[u] # "awaiting"
    /\ user_message' = [user_message EXCEPT ![t] = um]
    /\ messages' = [messages EXCEPT ![t] = build_message_chain(SESSION_STORE, sid, um)]
    /\ reply' = [reply EXCEPT ![t] = <<>>]
    /\ before' = [before EXCEPT ![t] = SESSION_STORE]
    /\ quiet' = [quiet EXCEPT ![t] = TRUE]
    /\ pc' = [pc EXCEPT ![t] = "awaiting"]
    /\ UNCHANGED <<SESSION_STORE, appended, session_id, redaction_enabled, turns, turn>>

\* chat, from its entry to the suspension in ainvoke: the chain is built
\* from the store as it is now and handed to the backend
ChatCall(t, sid, um) ==
    /\ pc[t] = "received"
    /\ user_message' = [user_message EXCEPT ![t] = um]
    /\ messages' = [messages EXCEPT ![t] = build_message_chain(SESSION_STORE, sid, um)]
    /\ reply' = [reply EXCEPT ![t] = <<>>]
    /\ before' = [before EXCEPT ![t] = SESSION_STORE]
    /\ quiet' = [quiet EXCEPT ![t] = TRUE]
    /\ pc' = [pc EXCEPT ![t] = "awaiting"]
    /\ UNCHANGED <<SESSION_STORE, appended, session_id, redaction_enabled, turns, turn>>

\* the number of characters a token of a text stands for: a run of 10000
\* or of 10001 characters is written as one token
TokenLen(c) ==
    CASE c = "x*10000" -> 10000
      [] c = "x*10001" -> 10001
      [] OTHER -> 1

RECURSIVE TextLen(_)
\* len(text)
TextLen(text) == IF text = <<>> THEN 0 ELSE TokenLen(Head(text)) + TextLen(Tail(text))

\* len(session_id) of the identifiers requests carry
IdLen(sid) ==
    CASE sid = "" -> 0
      [] sid = "s*100" -> 100
      [] sid = "s*101" -> 101
      [] OTHER -> 2

RECURSIVE LStrip(_)
LStrip(text) ==
    IF text # <<>> /\ Head(text) = " " THEN LStrip(Tail(text)) ELSE text

RECURSIVE RStrip(_)
RStrip(text) ==
    IF text # <<>> /\ text[Len(text)] = " "
    THEN RStrip(SubSeq(text, 1, Len(text) - 1))
    ELSE text

\* str.strip
Strip(text) == RStrip(LStrip(text))

MinIdLen == 1

MaxIdLen == 100

MinMessageLen == 1

MaxMessageLen == 10000

\* ChatRequest: the field constraints checked when the request is parsed
ChatRequestValid(sid, m) ==
    /\ IdLen(sid) >= MinIdLen
    /\ IdLen(sid) <= MaxIdLen
    /\ TextLen(m) >= MinMessageLen
    /\ TextLen(m) <= MaxMessageLen

\* an endpoint without its own check of the trimmed message
RejectionStatusUntrimmed(sid, m) ==
    IF ~ChatRequestValid(sid, m) THEN 422 ELSE 0

\* the status a request is turned away with, 0 if it is let through: 422
\* from the parsing of the request, 400 from the endpoint's own check
RejectionStatus(sid, m) ==
    IF ~ChatRequestValid(sid, m) THEN 422
    ELSE IF TextLen(Strip(m)) = 0 THEN 400
    ELSE 0

RejectionDetail(status) ==
    IF status = 400 THEN <<"User message cannot be empty">> ELSE <<"validation error">>

\* a caller's request for one turn arrives: message m for session sid; it
\* is parsed and checked, and turned away or passed on to chat
Arrive(t, sid, m) ==
    /\ pc[t] = "idle"
    /\ turns < MaxTurns
    /\ turns' = turns + 1
    /\ turn' = [turn EXCEPT ![t] = turns + 1]
    /\ session_id' = [session_id EXCEPT ![t] = sid]
    /\ raw_message' = [raw_message EXCEPT ![t] = m]
    /\ IF RejectionStatus(sid, m) # 0
       THEN /\ pc' = [pc EXCEPT ![t] = "rejected"]
            /\ response' = [response EXCEPT ![t] =
                    HttpResponse(RejectionStatus(sid, m),
                                 RejectionDetail(RejectionStatus(sid, m)), "", <<>>)]
       ELSE /\ pc' = [pc EXCEPT ![t] = "received"]
            /\ UNCHANGED response
    /\ UNCHANGED <<SESSION_STORE, user_message, messages, reply, redaction_enabled,
                   redaction, appended, before, quiet>>
    /\ UNCHANGED <<llm_provider, error, hint, instVars, maskVars, cliVars>>

\* the turn runs up to the backend call: the message is redacted when
\* redaction is enabled, and chat is called with the result
ProcessTurn(t) ==
    \E analysis \in TurnAnalyses(raw_message[t]),
       rewrite \in TurnRewrites(raw_message[t]) :
        LET masked == Redact(redaction_enabled, raw_message[t], analysis, rewrite)
        IN  /\ ChatCall(t, session_id[t], masked.value)
            /\ UNCHANGED raw_message
            /\ redaction' = [redaction EXCEPT ![t] =
                    [called |-> masked.called,
                     rewrite |-> IF masked.called THEN rewrite ELSE NoRewrite]]
            /\ UNCHANGED <<httpVars, instVars, maskVars, cliVars>>

\* the two saves in the wrong order
SaveTurnReplyFirst(store, sid, um, assistant_reply) ==
    save_to_session(save_to_session(store, sid, "assistant", assistant_reply),
                    sid, "user", um)

\* the store after the two saves of a successful turn
SaveTurn(store, sid, um, assistant_reply) ==
    save_to_session(save_to_session(store, sid, "user", um),
                    sid, "assistant", assistant_reply)

\* chat writing back the history it read before the backend call, with the
\* turn added
BackendReturnStale(t, content) ==
    /\ pc[t] = "awaiting"
    /\ SESSION_STORE' = SaveTurn(before[t], session_id[t], user_message[t], content)
    /\ reply' = [reply EXCEPT ![t] = content]
    /\ response' = [response EXCEPT ![t] = HttpResponse(200, <<>>, session_id[t], content)]
    /\ pc' = [pc EXCEPT ![t] = "returned"]
    /\ appended' = [appended EXCEPT ![session_id[t]] =
                        @ \o <<Tagged(Message("user", user_message[t]), turn[t]),
                               Tagged(Message("assistant", content), turn[t])>>]
    /\ quiet' = [u \in Tasks |-> IF u = t THEN quiet[u] ELSE FALSE]
    /\ UNCHANGED <<session_id, raw_message, user_message, messages,
                   redaction_enabled, turns, turn, redaction, before>>
    /\ UNCHANGED <<llm_provider, error, hint, instVars, maskVars, cliVars>>

\* the backend answers: chat saves the user message and the reply and
\* returns the reply
BackendReturn(t, content) ==
    /\ pc[t] = "awaiting"
    /\ SESSION_STORE' = SaveTurn(SESSION_STORE, session_id[t], user_message[t], content)
    /\ reply' = [reply EXCEPT ![t] = content]
    /\ response' = [response EXCEPT ![t] = HttpResponse(200, <<>>, session_id[t], content)]
    /\ pc' = [pc EXCEPT ![t] = "returned"]
    /\ appended' = [appended EXCEPT ![session_id[t]] =
                        @ \o <<Tagged(Message("user", user_message[t]), turn[t]),
                               Tagged(Message("assistant", content), turn[t])>>]
    /\ quiet' = [u \in Tasks |-> IF u = t THEN quiet[u] ELSE FALSE]
    /\ UNCHANGED <<session_id, raw_message, user_message, messages,
                   redaction_enabled, turns, turn, redaction, before>>
    /\ UNCHANGED <<llm_provider, error, hint, instVars, maskVars, cliVars>>

\* the failures the backend call may raise, by the text of the exception
BackendErrors ==
    {"Connection refused", "Error code: 401 - Unauthorized", "Request timed out", "boom"}

\* "connection" in str(e).lower()
MentionsConnection(e) == e = "Connection refused"

\* "401" in str(e) or "unauthorized" in str(e).lower()
MentionsUnauthorized(e) == e = "Error code: 401 - Unauthorized"

\* the hint the except branch of chat logs, the only place where the code
\* tells one failure from another
LoggedHint(provider, e) ==
    IF provider = "ollama" /\ MentionsConnection(e)
    THEN "Hint: Make sure 'ollama serve' is running"
    ELSE IF provider = "azure" /\ MentionsUnauthorized(e)
    THEN "Hint: Check your Azure OpenAI API key"
    ELSE ""

\* a detail that quotes the exception, as f"...: {str(e)}" would
ServerErrorDetailQuotesException(e) ==
    <<"Internal server error: Failed to process chat request", e>>

\* the detail of the HTTP 500 the endpoint raises for a failed chat
ServerErrorDetail(e) == <<"Internal server error: Failed to process chat request">>

\* a failed turn that forgets the session it was for
BackendFailDropsSession(t, e) ==
    /\ pc[t] = "awaiting"
    /\ pc' = [pc EXCEPT ![t] = "raised"]
    /\ error' = [error EXCEPT ![t] = e]
    /\ hint' = [hint EXCEPT ![t] = LoggedHint(llm_provider, e)]
    /\ response' = [response EXCEPT ![t] = HttpResponse(500, ServerErrorDetail(e), "", <<>>)]
    /\ SESSION_STORE' = clear_session(SESSION_STORE, session_id[t]).store
    /\ UNCHANGED <<session_id, raw_message, user_message, messages,
                   reply, redaction_enabled, turns, turn, redaction, appended,
                   before, quiet>>
    /\ UNCHANGED <<llm_provider, instVars, maskVars, cliVars>>

\* a failed turn answered as if it had succeeded, with a reply made up
\* for the occasion
BackendFailReturnsFallback(t, e) ==
    /\ pc[t] = "awaiting"
    /\ pc' = [pc EXCEPT ![t] = "raised"]
    /\ error' = [error EXCEPT ![t] = e]
    /\ hint' = [hint EXCEPT ![t] = LoggedHint(llm_provider, e)]
    /\ reply' = [reply EXCEPT ![t] = <<"s", "o", "r", "r", "y">>]
    /\ response' = [response EXCEPT ![t] =
            HttpResponse(200, <<>>, session_id[t], <<"s", "o", "r", "r", "y">>)]
    /\ UNCHANGED <<SESSION_STORE, session_id, raw_message, user_message, messages,
                   redaction_enabled, turns, turn, redaction, appended,
                   before, quiet>>
    /\ UNCHANGED <<llm_provider, instVars, maskVars, cliVars>>

\* the backend call raises e: chat logs and re-raises, the endpoint
\* answers with HTTP 500
BackendFail(t, e) ==
    /\ pc[t] = "awaiting"
    /\ pc' = [pc EXCEPT ![t] = "raised"]
    /\ error' = [error EXCEPT ![t] = e]
    /\ hint' = [hint EXCEPT ![t] = LoggedHint(llm_provider, e)]
    /\ response' = [response EXCEPT ![t] = HttpResponse(500, ServerErrorDetail(e), "", <<>>)]
    /\ UNCHANGED <<SESSION_STORE, session_id, raw_message, user_message, messages,
                   reply, redaction_enabled, turns, turn, redaction, appended,
                   before, quiet>>
    /\ UNCHANGED <<llm_provider, instVars, maskVars, cliVars>>

\* the caller has its answer; the task is free for the next request
Finish(t) ==
    /\ pc[t] \in {"returned", "raised", "rejected"}
    /\ pc' = [pc EXCEPT ![t] = "idle"]
    /\ session_id' = [session_id EXCEPT ![t] = ""]
    /\ raw_message' = [raw_message EXCEPT ![t] = <<>>]
    /\ user_message' = [user_message EXCEPT ![t] = <<>>]
    /\ messages' = [messages EXCEPT ![t] = <<>>]
    /\ reply' = [reply EXCEPT ![t] = <<>>]
    /\ turn' = [turn EXCEPT ![t] = 0]
    /\ redaction' = [redaction EXCEPT ![t] = NoRedaction]
    /\ before' = [before EXCEPT ![t] = EmptyStore]
    /\ quiet' = [quiet EXCEPT ![t] = TRUE]
    /\ error' = [error EXCEPT ![t] = NoError]
    /\ hint' = [hint EXCEPT ![t] = ""]
    /\ response' = [response EXCEPT ![t] = NoResponse]
    /\ UNCHANGED <<SESSION_STORE, redaction_enabled, turns, appended>>
    /\ UNCHANGED <<llm_provider, instVars, maskVars, cliVars>>

\* a call of LLMClient.clear_session
ClearSession(sid) ==
    /\ SESSION_STORE' = clear_session(SESSION_STORE, sid).store
    /\ appended' = (IF clear_session(SESSION_STORE, sid).result
                    THEN [appended EXCEPT ![sid] = <<>>]
                    ELSE appended)
    /\ quiet' = (IF clear_session(SESSION_STORE, sid).result
                 THEN [u \in Tasks |-> FALSE]
                 ELSE quiet)
    /\ UNCHANGED <<pc, session_id, raw_message, user_message, messages, reply,
                   redaction_enabled, turns, turn, redaction, before>>
    /\ UNCHANGED <<httpVars, instVars, maskVars, cliVars>>

Next ==
    \/ \E t \in Tasks, sid \in SessionIds, m \in UserTexts : Arrive(t, sid, m)
    \/ \E t \in Tasks : ProcessTurn(t)
    \/ \E t \in Tasks, content \in Replies : BackendReturn(t, content)
    \/ \E t \in Tasks : BackendFail(t, "boom")
    \/ \E t \in Tasks : Finish(t)
    \/ \E sid \in SessionIds : ClearSession(sid)

Spec == Init /\ [][Next]_vars

RedactSpec == InitRedact /\ [][Next]_vars

\* the steps of task t's own turn
TurnStep(t) ==
    \/ ProcessTurn(t)
    \/ \E content \in Replies : BackendReturn(t, content)
    \/ BackendFail(t, "boom")

\* the event loop runs task t2 whenever it can run and t2's backend
\* responds; nothing is assumed about t1, whose backend may stay silent
LiveSpec == Init /\ [][Next]_vars /\ WF_vars(TurnStep("t2"))

\* ------------------------------------------------------------------------
\* Properties of the session store and of a turn
\* ------------------------------------------------------------------------

Untagged(entry) == Message(entry.role, entry.content)

\* what is stored for sid, the empty list if nothing is
Stored(sid) == IF sid \in DOMAIN SESSION_STORE THEN SESSION_STORE[sid] ELSE <<>>

\* C1: a session's stored history has at most 20 messages and is the last
\* min(k, 20) of the k messages appended to it since it was created, in the
\* order they were appended
HistoryIsLastAppended ==
    \A s \in SessionIds :
        LET h == Stored(s)
            k == Len(appended[s])
        IN  /\ Len(h) <= 20
            /\ Len(h) = Min(k, 20)
            /\ \A i \in 1..Len(h) : h[i] = Untagged(appended[s][k - Len(h) + i])

\* a session that has had more than 20 appends
HistoryWasTrimmed ==
    \E s \in DOMAIN SESSION_STORE : Len(appended[s]) > 20 /\ Len(SESSION_STORE[s]) = 20

\* C2: when the backend call of a turn has failed and nobody else has
\* written to the store since the turn began, the store is what it was when
\* the turn began: same sessions, same histories
FailedTurnLeavesStore ==
    \A t \in Tasks : (pc[t] = "raised" /\ quiet[t]) => SESSION_STORE = before[t]

\* a failed turn on a session that has a history
FailedTurnOnHistory ==
    \E t \in Tasks :
        /\ pc[t] = "raised"
        /\ quiet[t]
        /\ session_id[t] \in DOMAIN SESSION_STORE
        /\ Len(SESSION_STORE[session_id[t]]) >= 2

\* the history of a task's session when the task's turn began
HistoryBefore(t) ==
    IF session_id[t] \in DOMAIN before[t] THEN before[t][session_id[t]] ELSE <<>>

\* C3: the chain of a turn is one system message with the system prompt,
\* then the stored history message for message with user as human and
\* assistant as ai, then one human message with the new input; it has
\* len(history) + 2 messages
ChainIsPromptHistoryInput ==
    \A t \in Tasks :
        pc[t] \in {"awaiting", "returned", "raised"} =>
            LET chain == messages[t]
                history == HistoryBefore(t)
            IN  /\ Len(chain) = Len(history) + 2
                /\ chain[1] = [type |-> "system", content |-> system_prompt]
                /\ chain[Len(chain)] = [type |-> "human", content |-> user_message[t]]
                /\ \A i \in 2..Len(chain) : chain[i].type # "system"
                /\ \A i \in 1..Len(history) :
                    /\ chain[i + 1].content = history[i].content
                    /\ chain[i + 1].type =
                         (IF history[i].role = "user" THEN "human" ELSE "ai")
                    /\ history[i].role \in {"user", "assistant"}

\* the second of two turns on a fresh session: a chain of 4 messages
SecondTurnChain ==
    \E t \in Tasks :
        /\ pc[t] = "awaiting"
        /\ Len(messages[t]) = 4
        /\ Len(HistoryBefore(t)) = 2
        /\ turn[t] = 2

\* C4: the step in which a turn succeeds appends the user message and then
\* the reply it returns to the turn's session, so that they are the last two
\* stored messages; the step that calls the backend appends nothing
SuccessAppendsUserThenReply ==
    [][\A t \in Tasks :
        /\ (pc[t] = "awaiting" /\ pc'[t] = "returned") =>
            LET s == session_id[t]
                old == Stored(s)
                pair == <<[role |-> "user", content |-> user_message[t]],
                          [role |-> "assistant", content |-> reply'[t]]>>
            IN  /\ s \in DOMAIN SESSION_STORE'
                /\ SESSION_STORE'[s] = LastN(old \o pair, 20)
                /\ SubSeq(SESSION_STORE'[s], Len(SESSION_STORE'[s]) - 1,
                          Len(SESSION_STORE'[s])) = pair
        /\ (pc[t] = "received" /\ pc'[t] = "awaiting") => SESSION_STORE' = SESSION_STORE
      ]_vars

\* a turn has succeeded on a session that had a history
TurnSucceeded ==
    \E t \in Tasks :
        /\ pc[t] = "returned"
        /\ Len(HistoryBefore(t)) >= 2
        /\ Len(Stored(session_id[t])) >= 4

\* C6: the appends of turns on one session do not interleave and none is
\* lost: in the sequence of a session's appends every user message is
\* followed at once by the reply of the same turn, the two messages of every
\* finished turn are there, and the stored history is the tail of that
\* sequence
AppendsDoNotInterleave ==
    /\ \A s \in SessionIds :
        LET log == appended[s]
        IN  /\ Len(log) % 2 = 0
            /\ \A i \in 1..Len(log) :
                i % 2 = 1 =>
                    /\ log[i].role = "user"
                    /\ log[i + 1].role = "assistant"
                    /\ log[i + 1].turn = log[i].turn
            /\ Stored(s) = [i \in 1..Min(Len(log), 20) |->
                              Untagged(log[Len(log) - Min(Len(log), 20) + i])]
    /\ \A t \in Tasks :
        (pc[t] = "returned" /\ quiet[t]) =>
            LET log == appended[session_id[t]]
            IN  /\ Len(log) >= 2
                /\ log[Len(log) - 1] =
                     [role |-> "user", content |-> user_message[t], turn |-> turn[t]]
                /\ log[Len(log)] =
                     [role |-> "assistant", content |-> reply[t], turn |-> turn[t]]

\* two turns that ran at the same time on one session have both succeeded
ConcurrentTurnsSucceeded ==
    \E t, u \in Tasks :
        /\ t # u
        /\ pc[t] = "returned"
        /\ pc[u] = "returned"
        /\ session_id[t] = session_id[u]
        /\ Len(HistoryBefore(t)) = 18
        /\ Len(HistoryBefore(u)) = 18

OtherSessionTurnCompletes ==
    (/\ pc["t2"] = "received"
     /\ pc["t1"] = "awaiting"
     /\ session_id["t1"] # session_id["t2"])
        ~> (pc["t2"] \in {"returned", "raised"})

\* t2's turn has succeeded on one session while t1 is still suspended in
\* the backend call of an earlier turn on another
CompletedBesideSuspended ==
    /\ pc["t1"] = "awaiting"
    /\ pc["t2"] = "returned"
    /\ session_id["t1"] # session_id["t2"]
    /\ turn["t1"] < turn["t2"]

\* ------------------------------------------------------------------------
\* PIIMasker.get_instance called from several threads
\* ------------------------------------------------------------------------

\* a thread calls get_instance
GetInstance(th) ==
    /\ ipc[th] = "idle"
    /\ calls[th] < MaxCalls
    /\ calls' = [calls EXCEPT ![th] = @ + 1]
    /\ got' = [got EXCEPT ![th] = NoObject]
    /\ ipc' = [ipc EXCEPT ![th] = "check"]
    /\ UNCHANGED <<instance, lock, objects, building>>
    /\ UNCHANGED <<chatVars, maskVars, cliVars>>

\* if cls._instance is None, outside the lock
FirstCheck(th) ==
    /\ ipc[th] = "check"
    /\ ipc' = [ipc EXCEPT ![th] = IF instance = NoObject THEN "acquire" ELSE "return"]
    /\ UNCHANGED <<instance, lock, objects, building, got, calls>>
    /\ UNCHANGED <<chatVars, maskVars, cliVars>>

\* with cls._lock: wait for the lock and take it
Acquire(th) ==
    /\ ipc[th] = "acquire"
    /\ lock = None
    /\ lock' = th
    /\ ipc' = [ipc EXCEPT ![th] = "locked"]
    /\ UNCHANGED <<instance, objects, building, got, calls>>
    /\ UNCHANGED <<chatVars, maskVars, cliVars>>

\* the second check skipped: whoever gets the lock constructs
SecondCheckSkipped(th) ==
    /\ ipc[th] = "locked"
    /\ ipc' = [ipc EXCEPT ![th] = "construct"]
    /\ UNCHANGED <<instance, lock, objects, building, got, calls>>
    /\ UNCHANGED <<chatVars, maskVars, cliVars>>

\* if cls._instance is None, under the lock
SecondCheck(th) ==
    /\ ipc[th] = "locked"
    /\ ipc' = [ipc EXCEPT ![th] = IF instance = NoObject THEN "construct" ELSE "release"]
    /\ UNCHANGED <<instance, lock, objects, building, got, calls>>
    /\ UNCHANGED <<chatVars, maskVars, cliVars>>

\* PIIMasker(): a new object exists and its __init__ starts
ConstructBegin(th) ==
    /\ ipc[th] = "construct"
    /\ objects' = Append(objects, [ready |-> FALSE])
    /\ building' = [building EXCEPT ![th] = Len(objects) + 1]
    /\ ipc' = [ipc EXCEPT ![th] = "init"]
    /\ UNCHANGED <<instance, lock, got, calls>>
    /\ UNCHANGED <<chatVars, maskVars, cliVars>>

\* __init__ has built the engines and set the policy
ConstructEnd(th) ==
    /\ ipc[th] = "init"
    /\ objects' = [objects EXCEPT ![building[th]].ready = TRUE]
    /\ ipc' = [ipc EXCEPT ![th] = "assign"]
    /\ UNCHANGED <<instance, lock, building, got, calls>>
    /\ UNCHANGED <<chatVars, maskVars, cliVars>>

\* cls._instance = the constructed object
Assign(th) ==
    /\ ipc[th] = "assign"
    /\ instance' = building[th]
    /\ building' = [building EXCEPT ![th] = NoObject]
    /\ ipc' = [ipc EXCEPT ![th] = "release"]
    /\ UNCHANGED <<lock, objects, got, calls>>
    /\ UNCHANGED <<chatVars, maskVars, cliVars>>

\* the with block ends
Release(th) ==
    /\ ipc[th] = "release"
    /\ lock' = None
    /\ ipc' = [ipc EXCEPT ![th] = "return"]
    /\ UNCHANGED <<instance, objects, building, got, calls>>
    /\ UNCHANGED <<chatVars, maskVars, cliVars>>

\* return cls._instance
ReturnInstance(th) ==
    /\ ipc[th] = "return"
    /\ got' = [got EXCEPT ![th] = instance]
    /\ ipc' = [ipc EXCEPT ![th] = "idle"]
    /\ UNCHANGED <<instance, lock, objects, building, calls>>
    /\ UNCHANGED <<chatVars, maskVars, cliVars>>

InitInstance ==
    /\ StartStore(0)
    /\ redaction_enabled = FALSE
    /\ llm_provider = "ollama"
    /\ ChatIdle
    /\ InstIdle
    /\ MaskIdle
    /\ CliIdle

NextInstance ==
    \/ \E th \in Threads : GetInstance(th)
    \/ \E th \in Threads : FirstCheck(th)
    \/ \E th \in Threads : Acquire(th)
    \/ \E th \in Threads : SecondCheck(th)
    \/ \E th \in Threads : ConstructBegin(th)
    \/ \E th \in Threads : ConstructEnd(th)
    \/ \E th \in Threads : Assign(th)
    \/ \E th \in Threads : Release(th)
    \/ \E th \in Threads : ReturnInstance(th)

InstanceSpec == InitInstance /\ [][NextInstance]_vars

\* C8: the constructor runs at most once, every caller that has returned
\* holds the one instance, and the instance a caller holds is fully
\* constructed
ConstructedOnceAndShared ==
    /\ Len(objects) <= 1
    /\ \A th \in Threads :
        (ipc[th] = "idle" /\ calls[th] > 0) =>
            /\ got[th] # NoObject
            /\ got[th] \in 1..Len(objects)
            /\ objects[got[th]].ready
    /\ \A th1, th2 \in Threads :
        (got[th1] # NoObject /\ got[th2] # NoObject) => got[th1] = got[th2]

\* two threads found no instance at the first check; one constructed it
\* and both have returned with it
RacedCallersShare ==
    \E th1, th2 \in Threads :
        /\ th1 # th2
        /\ calls[th1] = 1 /\ calls[th2] = 1
        /\ ipc[th1] = "idle" /\ got[th1] # NoObject
        /\ ipc[th2] = "release" /\ instance # NoObject

\* ------------------------------------------------------------------------
\* One call of mask
\* ------------------------------------------------------------------------

InitMask ==
    /\ StartStore(0)
    /\ redaction_enabled = FALSE
    /\ llm_provider = "ollama"
    /\ ChatIdle
    /\ InstIdle
    /\ CliIdle
    /\ mvariant \in Variants
    /\ \E a \in AnonymizerArgs : manonymizers = PIIMasker_init(mvariant, a)
    /\ mtext \in MaskTexts
    /\ manalysis \in AnalyzeOutcomes(mtext)
    /\ mrewrite \in AnonymizeOutcomes(mtext)
    /\ mresult = NoResult
    /\ mdone = FALSE

\* mask(text) on the instance, the two engines behaving as drawn
MaskCall ==
    /\ ~mdone
    /\ mresult' = mask(mvariant, manonymizers, mtext, manalysis, mrewrite)
    /\ mdone' = TRUE
    /\ UNCHANGED <<mvariant, manonymizers, mtext, manalysis, mrewrite>>
    /\ UNCHANGED <<chatVars, instVars, cliVars>>

NextMask == MaskCall

MaskSpec == InitMask /\ [][NextMask]_vars

\* C9: when the detection call raises, mask raises nothing and returns its
\* input text
DetectionFailureReturnsInput ==
    (mdone /\ mtext # <<>> /\ manalysis.raises) =>
        (~mresult.raised /\ mresult.value = mtext)

\* mask has returned from a call in which detection raised
DetectionFailed ==
    /\ mdone
    /\ mtext # <<>>
    /\ manalysis.raises
    /\ ~mresult.called

\* C10: when detection has returned entities and the rewrite call raises,
\* also when it was handed a missing operator, mask raises nothing and
\* returns its input text
RewriteFailureReturnsInput ==
    (mdone /\ ~manalysis.raises /\ mrewrite.raises) =>
        (~mresult.raised /\ mresult.value = mtext)

\* mask has returned from a call in which the rewrite engine was called
\* with a missing operator and raised
RewriteFailed ==
    /\ mdone
    /\ mresult.called
    /\ mrewrite.raises
    /\ \E ent \in DOMAIN mresult.operators : mresult.operators[ent] = NoOperator

\* ------------------------------------------------------------------------
\* Properties of what mask hands to the rewrite engine
\* ------------------------------------------------------------------------

\* the entities mask handed to the rewrite engine
PassedOn == {mresult.analyzer_results[j] : j \in 1..Len(mresult.analyzer_results)}

\* a location whose text is one of the abbreviations, with confidence
\* below 0.9
IsDoubtfulAbbreviation(text, r) ==
    /\ r.entity_type = "LOCATION"
    /\ Upper(Slice(text, r.start, r.end)) \in
         {<<"U", "S">>, <<"U", "K">>, <<"C", "A">>, <<"N", "Y">>, <<"T", "X">>,
          <<"F", "L">>, <<"I", "L">>, <<"P", "A">>, <<"O", "H">>, <<"M", "I">>}
    /\ r.score < 90

\* C11: mask drops a detected entity exactly when it is a location whose
\* text, case ignored, is one of the ten abbreviations and whose confidence
\* is below 0.9; every other entity is handed to the rewrite engine, with an
\* operator for its type
DroppedIffDoubtfulAbbreviation ==
    (mdone /\ mtext # <<>> /\ ~manalysis.raises) =>
        \A i \in 1..Len(manalysis.results) :
            LET r == manalysis.results[i]
            IN  IF IsDoubtfulAbbreviation(mtext, r)
                THEN r \notin PassedOn
                ELSE /\ mresult.called
                     /\ r \in PassedOn
                     /\ r.entity_type \in DOMAIN mresult.operators

\* C12: the operator mask hands over for the type of an entity is the
\* policy's entry for that type if it has one and the policy's DEFAULT entry
\* otherwise, and is never missing
OperatorIsPolicyEntryOrDefault ==
    (mdone /\ mresult.called) =>
        \A r \in PassedOn :
            LET ty == r.entity_type
            IN  /\ ty \in DOMAIN mresult.operators
                /\ mresult.operators[ty] # NoOperator
                /\ ty \in DOMAIN manonymizers =>
                      mresult.operators[ty] = manonymizers[ty]
                /\ ty \notin DOMAIN manonymizers =>
                      /\ "DEFAULT" \in DOMAIN manonymizers
                      /\ mresult.operators[ty] = manonymizers["DEFAULT"]

\* ------------------------------------------------------------------------
\* Properties of reads, clear_session and the session count
\* ------------------------------------------------------------------------

\* C13: reading the history of a session identifier that is not stored
\* gives the empty list and leaves the store as it is, also when it is read
\* to build the chain of a turn: the chain is the prompt and the new message
\* only, and the sessions and their count are the same after as before
ReadOfUnseenSessionIsEmpty ==
    [][\A t \in Tasks :
        (/\ pc[t] = "received"
         /\ pc'[t] = "awaiting"
         /\ session_id[t] \notin DOMAIN SESSION_STORE) =>
            /\ get_session_history(SESSION_STORE, session_id[t]) = <<>>
            /\ messages'[t] = <<[type |-> "system", content |-> system_prompt],
                                [type |-> "human", content |-> user_message'[t]]>>
            /\ SESSION_STORE' = SESSION_STORE
            /\ DOMAIN SESSION_STORE' = DOMAIN SESSION_STORE
            /\ get_session_count(SESSION_STORE') = get_session_count(SESSION_STORE)
      ]_vars

\* a turn on a session that has been cleared has built its chain
ChainBuiltForClearedSession ==
    \E t, u \in Tasks :
        /\ pc[t] = "awaiting"
        /\ quiet[t]
        /\ pc[u] = "returned"
        /\ session_id[u] = session_id[t]
        /\ session_id[t] \notin DOMAIN SESSION_STORE
        /\ Len(messages[t]) = 2

\* C14: clear_session(id) returns true exactly when id is stored; after it
\* id is not stored and its history reads as empty, and the other sessions
\* have the histories they had
ClearRemovesOnlyThatSession ==
    [][/\ \A sid \in SessionIds :
            LET r == clear_session(SESSION_STORE, sid)
            IN  /\ r.result = (sid \in DOMAIN SESSION_STORE)
                /\ sid \notin DOMAIN r.store
                /\ get_session_history(r.store, sid) = <<>>
                /\ DOMAIN r.store = DOMAIN SESSION_STORE \ {sid}
                /\ \A o \in DOMAIN r.store : r.store[o] = SESSION_STORE[o]
       /\ (pc' = pc /\ SESSION_STORE' # SESSION_STORE) =>
            \E sid \in DOMAIN SESSION_STORE :
                /\ DOMAIN SESSION_STORE' = DOMAIN SESSION_STORE \ {sid}
                /\ \A o \in DOMAIN SESSION_STORE' : SESSION_STORE'[o] = SESSION_STORE[o]
      ]_vars

\* a session that had a turn has been cleared and another session is
\* still stored
ClearedBesideAnother ==
    \E t \in Tasks :
        /\ pc[t] = "returned"
        /\ session_id[t] \notin DOMAIN SESSION_STORE
        /\ \E o \in DOMAIN SESSION_STORE : Len(SESSION_STORE[o]) >= 2

\* C20: at every point where a task can look at the store, each stored
\* history has an even number of messages, begins with a user message, ends
\* with an assistant message and alternates between the two roles
HistoryAlternates ==
    \A s \in DOMAIN SESSION_STORE :
        LET h == SESSION_STORE[s]
        IN  /\ Len(h) % 2 = 0
            /\ Len(h) >= 2
            /\ h[1].role = "user"
            /\ h[Len(h)].role = "assistant"
            /\ \A i \in 1..Len(h) :
                h[i].role = (IF i % 2 = 1 THEN "user" ELSE "assistant")

\* two turns that ran at the same time on one session have both been
\* recorded in a history that was trimmed to 20
TrimmedAfterConcurrentTurns ==
    \E s \in DOMAIN SESSION_STORE :
        /\ Len(appended[s]) = 22
        /\ Len(SESSION_STORE[s]) = 20
        /\ \A t \in Tasks : pc[t] = "returned" /\ session_id[t] = s
        /\ \A t \in Tasks : Len(HistoryBefore(t)) = 18

\* ---- the number of sessions held ----

LiveSessions == {s \in SessionIds : appended[s] # <<>>}

\* C15: get_session_count is the number of session identifiers appended to
\* since they were last cleared, and no step of a turn, successful or
\* failed, removes a session from the store: only clear_session does
SessionCountIsLiveSessions ==
    [][/\ get_session_count(SESSION_STORE) = Cardinality(LiveSessions)
       /\ get_session_count(SESSION_STORE') = Cardinality(LiveSessions')
       /\ (pc' # pc) =>
            /\ DOMAIN SESSION_STORE \subseteq DOMAIN SESSION_STORE'
            /\ get_session_count(SESSION_STORE') >= get_session_count(SESSION_STORE)]_vars

FailedTurnBesideTwoSessions ==
    \E t \in Tasks :
        /\ pc[t] = "raised"
        /\ get_session_count(SESSION_STORE) = 2

\* ---- the chat endpoint: requests of every shape, failures of every kind ----

\* the session identifiers requests carry: a usual one, the empty one, and
\* identifiers of 100 and of 101 characters
RequestIds == {"s1", "", "s*100", "s*101"}

\* the messages requests carry: a usual one, the empty one, one of blanks
\* only, and messages of 10000 and of 10001 characters
RequestTexts == {<<"h", "i">>, <<>>, <<" ", " ">>, <<"x*10000">>, <<"x*10001">>}

Providers == {"ollama", "azure"}

InitEndpoint ==
    /\ ChatIdle
    /\ InstIdle
    /\ MaskIdle
    /\ CliIdle
    /\ SESSION_STORE = EmptyStore
    /\ appended = [s \in RequestIds |-> <<>>]
    /\ redaction_enabled = FALSE
    /\ llm_provider \in Providers

NextEndpoint ==
    \/ \E t \in Tasks, sid \in RequestIds, m \in RequestTexts : Arrive(t, sid, m)
    \/ \E t \in Tasks : ProcessTurn(t)
    \/ \E t \in Tasks, content \in Replies : BackendReturn(t, content)
    \/ \E t \in Tasks, e \in BackendErrors : BackendFail(t, e)
    \/ \E t \in Tasks : Finish(t)

EndpointSpec == InitEndpoint /\ [][NextEndpoint]_vars

\* ---- failures and rejections at the endpoint ----

ErrorKinds ==
    {"Unavailable", "Unauthorized", "ModelNotFound", "RateLimited", "TimedOut", "Unknown"}

\* the kind a failure signal has, whatever the backend
KindOfSignal(e) ==
    CASE MentionsConnection(e) -> "Unavailable"
      [] MentionsUnauthorized(e) -> "Unauthorized"
      [] e = "Request timed out" -> "TimedOut"
      [] OTHER -> "Unknown"

\* the kind the code tells for the failure of task t: its hint is the only
\* classification made, and it is logged, not handed to the caller
KindTold(t) ==
    CASE hint[t] = "Hint: Make sure 'ollama serve' is running" -> "Unavailable"
      [] hint[t] = "Hint: Check your Azure OpenAI API key" -> "Unauthorized"
      [] OTHER -> "Unknown"

\* C16: every backend failure comes with exactly one kind of the taxonomy,
\* the kind of its signal whichever backend is active: a refused connection
\* is Unavailable, a rejected credential Unauthorized, a timeout TimedOut,
\* anything else Unknown
FailureKindFollowsSignal ==
    \A t \in Tasks :
        error[t] # NoError =>
            /\ KindTold(t) \in ErrorKinds
            /\ KindTold(t) = KindOfSignal(error[t])

\* C17: a turn whose backend call failed ends in failure: chat has returned
\* no reply, and the endpoint's answer is an error status without a reply
FailureReachesCaller ==
    \A t \in Tasks :
        error[t] # NoError =>
            /\ pc[t] = "raised"
            /\ reply[t] = <<>>
            /\ response[t].status >= 400
            /\ response[t].reply = <<>>

FailedBesideAnswered ==
    \E t, u \in Tasks :
        /\ error[t] # NoError
        /\ pc[t] = "raised"
        /\ pc[u] = "returned"
        /\ response[u].status = 200

\* the requests the claim calls invalid
InvalidRequest(sid, m) ==
    \/ TextLen(Strip(m)) = 0
    \/ TextLen(m) > 10000
    \/ IdLen(sid) < 1
    \/ IdLen(sid) > 100

\* C18: a request with a message empty after trimming or longer than 10000
\* characters, or with a session identifier shorter than 1 or longer than
\* 100 characters, is answered with a client error; no chain is built
\* from the store and nothing is dispatched for it, it never goes on to
\* chat, and the store is as it was
InvalidRequestIsRejected ==
    [][\A t \in Tasks :
        /\ (pc[t] = "idle" /\ pc'[t] # "idle"
                /\ InvalidRequest(session_id'[t], raw_message'[t])) =>
              /\ pc'[t] = "rejected"
              /\ response'[t].status \in 400..499
              /\ messages'[t] = <<>>
              /\ before'[t] = before[t]
              /\ SESSION_STORE' = SESSION_STORE
        /\ (pc[t] = "rejected" /\ pc'[t] # "rejected") =>
              /\ pc'[t] = "idle"
              /\ SESSION_STORE' = SESSION_STORE]_vars

BlankRejectedBesideStoredTurn ==
    \E t \in Tasks :
        /\ pc[t] = "rejected"
        /\ raw_message[t] = <<" ", " ">>
        /\ response[t].status = 400
        /\ SESSION_STORE # EmptyStore

RECURSIVE Quotes(_, _)
\* does the detail contain the text e
Quotes(detail, e) ==
    IF detail = <<>> THEN FALSE
    ELSE Head(detail) = e \/ Quotes(Tail(detail), e)

\* C19: the answer to a failed turn does not quote the exception, and the
\* answers to two failures that differ in their exception are the same
FailureDetailIsFixed ==
    \A t, u \in Tasks :
        (error[t] # NoError /\ error[u] # NoError) =>
            /\ ~Quotes(response[t].detail, error[t])
            /\ response[t] = response[u]

TwoDifferentFailures ==
    \E t, u \in Tasks :
        /\ error[t] = "Error code: 401 - Unauthorized"
        /\ error[u] = "Connection refused"
        /\ response[t].status = 500
        /\ response[u].status = 500

\* ---- the chain of a turn and the history it is recorded after ----

\* C21: when a turn is recorded, the chain that was dispatched for it is
\* the system prompt, then the messages that stand in the stored history
\* just before the turn's user message is appended, then the new input,
\* also when several turns on one session are in flight
DispatchedHistoryIsRecordedHistory ==
    [][\A t \in Tasks :
        (pc[t] = "awaiting" /\ pc'[t] = "returned") =>
            messages[t] =
                build_message_chain(SESSION_STORE, session_id[t], user_message[t])]_vars

\* ---- turns on one session beside the histories of the others ----

\* lengths of the history session s2 starts with beside a full session s1
FramePrefillLens == {0, 2}

\* a store in which session s1 is at its capacity, beside a session s2
\* that is absent or holds one earlier turn
InitFrame ==
    /\ \E n \in FramePrefillLens :
        /\ SESSION_STORE = (IF n = 0 THEN ("s1" :> Prefill(HistoryLimit))
                            ELSE ("s1" :> Prefill(HistoryLimit)) @@ ("s2" :> Prefill(n)))
        /\ appended = [s \in SessionIds |->
                          IF s = "s1" THEN PrefillLog(HistoryLimit) ELSE PrefillLog(n)]
    /\ redaction_enabled = FALSE
    /\ llm_provider = "ollama"
    /\ ChatIdle
    /\ InstIdle
    /\ MaskIdle
    /\ CliIdle

FrameSpec == InitFrame /\ [][Next]_vars

\* C22: a step of a turn on session A, its appends and its trim included,
\* leaves every other session B as it was: B is stored after the step iff it
\* was before, with the same history, so no session but A is created and
\* no message of B is dropped
TurnLeavesOtherSessions ==
    [][\A t \in Tasks :
        pc'[t] # pc[t] =>
            \A B \in SessionIds \ {session_id'[t]} :
                /\ (B \in DOMAIN SESSION_STORE') <=> (B \in DOMAIN SESSION_STORE)
                /\ B \in DOMAIN SESSION_STORE => SESSION_STORE'[B] = SESSION_STORE[B]]_vars

TrimmedBesideAnotherSession ==
    /\ "s2" \in DOMAIN SESSION_STORE
    /\ SESSION_STORE["s2"] # <<>>
    /\ "s1" \in DOMAIN SESSION_STORE
    /\ Len(appended["s1"]) > HistoryLimit
    /\ Len(SESSION_STORE["s1"]) = HistoryLimit

\* ---- cli/main.py: extract_reply ----

\* the values json.loads gives: a dict with its fields, or a value of
\* another type
JsonObject(fields) == [kind |-> "object", str |-> "", fields |-> fields]

JsonString(text) == [kind |-> "string", str |-> text, fields |-> <<>>]

JsonNumber == [kind |-> "number", str |-> "", fields |-> <<>>]

JsonArray == [kind |-> "array", str |-> "", fields |-> <<>>]

JsonNull == [kind |-> "null", str |-> "", fields |-> <<>>]

\* the payload texts a response may carry: no JSON at all, the bodies the
\* API sends, objects with fields of other types, and JSON that is no object
PayloadTexts ==
    {"", "Internal Server Error",
     "{\"session_id\": \"s1\", \"reply\": \"ok\"}",
     "{\"reply\": \"\"}", "{\"reply\": 5}", "{\"reply\": null}", "{}",
     "{\"detail\": \"User message cannot be empty\"}", "{\"detail\": \"\"}",
     "{\"detail\": [{\"type\": \"string_too_long\"}]}",
     "[]", "5", "\"ok\"", "null"}

StatusCodes == {199, 200, 204, 299, 300, 400, 422, 500}

\* json.loads(payload_text): the value, or JSONDecodeError
json_loads(payload_text) ==
    CASE payload_text = "{\"session_id\": \"s1\", \"reply\": \"ok\"}" ->
            [raises |-> FALSE,
             value |-> JsonObject(("session_id" :> JsonString("s1"))
                                  @@ ("reply" :> JsonString("ok")))]
      [] payload_text = "{\"reply\": \"\"}" ->
            [raises |-> FALSE, value |-> JsonObject("reply" :> JsonString(""))]
      [] payload_text = "{\"reply\": 5}" ->
            [raises |-> FALSE, value |-> JsonObject("reply" :> JsonNumber)]
      [] payload_text = "{\"reply\": null}" ->
            [raises |-> FALSE, value |-> JsonObject("reply" :> JsonNull)]
      [] payload_text = "{}" ->
            [raises |-> FALSE, value |-> JsonObject(<<>>)]
      [] payload_text = "{\"detail\": \"User message cannot be empty\"}" ->
            [raises |-> FALSE,
             value |-> JsonObject("detail" :> JsonString("User message cannot be empty"))]
      [] payload_text = "{\"detail\": \"\"}" ->
            [raises |-> FALSE, value |-> JsonObject("detail" :> JsonString(""))]
      [] payload_text = "{\"detail\": [{\"type\": \"string_too_long\"}]}" ->
            [raises |-> FALSE, value |-> JsonObject("detail" :> JsonArray)]
      [] payload_text = "[]" -> [raises |-> FALSE, value |-> JsonArray]
      [] payload_text = "5" -> [raises |-> FALSE, value |-> JsonNumber]
      [] payload_text = "\"ok\"" -> [raises |-> FALSE, value |-> JsonString("ok")]
      [] payload_text = "null" -> [raises |-> FALSE, value |-> JsonNull]
      [] OTHER -> [raises |-> TRUE, value |-> JsonNull]

\* dict.get(key): the field, None without it
dict_get(data, key) ==
    IF key \in DOMAIN data.fields THEN data.fields[key] ELSE JsonNull

\* isinstance(value, str)
IsStr(value) == value.kind = "string"

Returned(ok, message) == [raised |-> "", ok |-> ok, message |-> message]

Raised(exception) == [raised |-> exception, ok |-> FALSE, message |-> ""]

\* extract_reply(status_code, payload_text): the pair it returns, or the
\* exception it raises; only a dict has the method get, so data.get on any
\* other value raises AttributeError, which nothing catches
extract_reply(status_code, payload_text) ==
    LET parsed == json_loads(payload_text)
        data == parsed.value
    IN  IF parsed.raises
        THEN Returned(FALSE, "Invalid response (" \o ToString(status_code) \o ").")
        ELSE IF data.kind # "object"
        THEN Raised("AttributeError")
        ELSE IF 200 <= status_code /\ status_code < 300
        THEN IF IsStr(dict_get(data, "reply"))
             THEN Returned(TRUE, dict_get(data, "reply").str)
             ELSE Returned(FALSE, "Malformed success payload: missing 'reply'.")
        ELSE IF IsStr(dict_get(data, "detail")) /\ dict_get(data, "detail").str # ""
             THEN Returned(FALSE, dict_get(data, "detail").str)
             ELSE Returned(FALSE, "Request failed (" \o ToString(status_code) \o ").")

InitExtract ==
    /\ StartStore(0)
    /\ redaction_enabled = FALSE
    /\ llm_provider = "ollama"
    /\ ChatIdle
    /\ InstIdle
    /\ MaskIdle
    /\ cli_status \in StatusCodes
    /\ cli_text \in PayloadTexts
    /\ cli_result = NoExtract
    /\ cli_done = FALSE

\* run_chat_loop hands the status and text of the response to extract_reply
ExtractReply ==
    /\ ~cli_done
    /\ cli_result' = extract_reply(cli_status, cli_text)
    /\ cli_done' = TRUE
    /\ UNCHANGED <<cli_status, cli_text>>
    /\ UNCHANGED <<chatVars, instVars, maskVars>>

NextExtract == ExtractReply

ExtractSpec == InitExtract /\ [][NextExtract]_vars

\* the payload is JSON with a string under "reply"
HasStringReply(payload_text) ==
    /\ ~json_loads(payload_text).raises
    /\ json_loads(payload_text).value.kind = "object"
    /\ "reply" \in DOMAIN json_loads(payload_text).value.fields
    /\ json_loads(payload_text).value.fields["reply"].kind = "string"

\* C23: for every status code and payload text extract_reply raises
\* nothing and returns (ok, message); ok is true exactly when the payload
\* parses as JSON, the status is in 200..299 and the payload's "reply" is a
\* string, and message is then that reply; otherwise, also for JSON that
\* is not an object, ok is false and message is an error text
ExtractReplyIsTotal ==
    cli_done =>
        /\ cli_result.raised = ""
        /\ cli_result.ok <=> (cli_status \in 200..299 /\ HasStringReply(cli_text))
        /\ cli_result.ok =>
              cli_result.message = json_loads(cli_text).value.fields["reply"].str
        /\ ~cli_result.ok => cli_result.message # ""

====
